---- MODULE Spec2Model ----
(***************************************************************************)
(* The request-serialisation core of the Telegram AI bot: the global       *)
(* REQUEST_QUEUE, its producers (chat_handler, generate_surprise_scene,    *)
(* generate_surprise_persona, _consolidate_memory), the single dispatcher  *)
(* task ai_worker with its four job handlers, the SQLite conversation      *)
(* store (db_utils) and the start-up / shut-down hooks of bot.py.          *)
(*                                                                         *)
(* A text is a sequence of tokens; concatenating the tokens of a text      *)
(* gives the Python string.  Python's `needle in text` is modelled as      *)
(* "needle is one of the tokens", str.strip() as removal of the leading    *)
(* and trailing white-space tokens, and the truth value of a string as     *)
(* "has at least one token".                                               *)
(*                                                                         *)
(* Every step of the model runs from one suspension point (an await that   *)
(* really yields to the event loop) to the next, so the code between two   *)
(* awaits is atomic, as it is under asyncio's single-threaded scheduler.   *)
(***************************************************************************)
EXTENDS Integers, Sequences, FiniteSets, TLC

-----------------------------------------------------------------------------
(* Bounds of the model *)

\* how many jobs the user-facing producers may put on the queue in one run
MaxEnqueues == 2

\* the longest text and the largest message length send_final_response is
\* tried on, besides the 10,000 characters against Telegram's 4096
MaxTextLen == 7
MaxLimit == 3

\* how many times /regenerate may delete the last turn in one run
MaxRegenerates == 1

\* the consolidation intervals looked at are 1..MaxInterval
MaxInterval == 4

-----------------------------------------------------------------------------
(* Program constants *)

\* the conversations (private chats) that talk to the bot
Chats == {1, 2}

\* a start-up that schedules ai_worker twice
TwoWorkers == 1 + 1

\* bot.py post_init_callback creates exactly one ai_worker task
NumWorkers == 1
Workers == 1..NumWorkers

MAX_HISTORY_MESSAGES == 10
MEMORY_CONSOLIDATION_INTERVAL == 15
MASTER_MEMORY_SWITCH == TRUE
TELEGRAM_MAX_MESSAGE_LENGTH == 4096

-----------------------------------------------------------------------------
(* Texts *)

WhiteSpace == {" ", "\n\n"}

\* Python: needle in text
Contains(text, needle) == \E i \in 1..Len(text) : text[i] = needle

RECURSIVE LStrip(_)
LStrip(t) == IF t # <<>> /\ Head(t) \in WhiteSpace THEN LStrip(Tail(t)) ELSE t

RECURSIVE RStrip(_)
RStrip(t) ==
    IF t # <<>> /\ t[Len(t)] \in WhiteSpace THEN RStrip(SubSeq(t, 1, Len(t) - 1)) ELSE t

\* Python: text.strip()
Strip(t) == RStrip(LStrip(t))

\* Python: bool(text)
Truthy(t) == t # <<>>

\* the fixed texts _get_ai_response returns instead of raising
NotInitMsg == <<"AI client not initialized.">>
TimeoutMsg ==
    << "I'm sorry, my thinking process ", "timed out",
       ". The AI model might be very busy. Please try again in a moment." >>
ConnectionMsg ==
    << "I'm having trouble connecting to the AI model right now. Please ensure LM Studio is running correctly." >>
CriticalMsg == << "A critical ", "error", " occurred while I was thinking." >>

\* send_final_response's replacement for an empty text
EmptyNotice == << "<i>(The AI returned an empty response.)</i>" >>

\* process_memory_job's instruction appended after the transcript
SummariseInstruction == << "You are a memory consolidation module." >>

\* what the user types
UserText == << "hello" >>

\* the message contents the backend may return (before .strip()), per job type
RawCompletions(type) ==
    CASE type = "chat" ->
           { << "Hi." >>, << " " >>, << "My ", "error", ", sorry." >> }
      [] type = "consolidate_memory" ->
           { << "They met." >>, << " " >> }
      [] type = "generate_scene" ->
           { << "A quiet harbour." >>, << " " >> }
      [] type = "generate_persona" ->
           { << "NAME:", "Ada", "###", "PROMPT:", "You are Ada." >>,
             << "NAME:", "Ada" >>,
             << "NAME:", "###", "PROMPT:", "You are Ada." >> }

\* how lm_studio_client.chat.completions.create can end
CallOutcomes == {"ok", "timeout", "connection", "other"}

\* get_system_prompt: the role-play framing put in front of a first message
SystemPrompt == << "(This is a role-play. You will now begin the role-play.)" >>

-----------------------------------------------------------------------------
(* Jobs and the queue *)

NoJob == [id |-> 0, type |-> "none", chat |-> 0, text |-> <<>>, placeholder |-> FALSE]

Job(id, type, chat, text, placeholder) ==
    [id |-> id, type |-> type, chat |-> chat, text |-> text, placeholder |-> placeholder]

\* a put that leaves the job on the queue twice
QueuePutTwice(q, job) == Append(Append(q, job), job)

\* asyncio.Queue.put on the unbounded REQUEST_QUEUE: append at the tail
QueuePut(q, job) == Append(q, job)

\* a queue that hands out the job put last
QueueGetNewest(q) == [job |-> q[Len(q)], rest |-> SubSeq(q, 1, Len(q) - 1)]

\* a queue that hands out its head and keeps it
QueuePeek(q) == [job |-> Head(q), rest |-> q]

\* asyncio.Queue.get on a queue that is not empty: the job at the head
QueueGet(q) == [job |-> Head(q), rest |-> Tail(q)]

-----------------------------------------------------------------------------
(* db_utils: the conversations and long_term_memory tables *)

Message(role, content) == [role |-> role, content |-> content]

NoSummary == [present |-> FALSE, text |-> <<>>]

\* the oldest n elements instead of the newest
Oldest(s, n) == IF Len(s) <= n THEN s ELSE SubSeq(s, 1, n)

\* SQL: ORDER BY id DESC LIMIT n, put back in insertion order
Last(s, n) == IF Len(s) <= n THEN s ELSE SubSeq(s, Len(s) - n + 1, Len(s))

\* every db_utils function catches sqlite3.Error, logs it and goes on; `ok` says
\* whether the statement went through
add_message_to_db(h, c, role, content, ok) ==
    IF ok THEN [h EXCEPT ![c] = Append(@, Message(role, content))] ELSE h

\* a read of the conversations table can work ("ok"), fail before the COUNT
\* ("fail") or fail between the COUNT and the SELECT ("fail_select")
get_history_from_db(h, c, limit, how) ==
    [ history |-> IF how = "ok"
                  THEN (IF limit = 0 THEN h[c] ELSE Last(h[c], limit))
                  ELSE <<>>,
      total   |-> IF how = "fail" THEN 0 ELSE Len(h[c]) ]

get_summary(s, c, ok) == IF ok THEN s[c] ELSE NoSummary

update_summary(s, c, text, ok) ==
    IF ok THEN [s EXCEPT ![c] = [present |-> TRUE, text |-> text]] ELSE s

\* Python: bool(summary) for a str | None
SummaryTruthy(r) == r.present /\ Truthy(r.text)

\* a DELETE without its WHERE clause: every conversation goes
clear_every_history_in_db(h, c, ok) == IF ok THEN [x \in Chats |-> <<>>] ELSE h

clear_history_in_db(h, c, ok) == IF ok THEN [h EXCEPT ![c] = <<>>] ELSE h

clear_summary_in_db(s, c, ok) == IF ok THEN [s EXCEPT ![c] = NoSummary] ELSE s

\* a DELETE with LIMIT 1: only the newest message goes
delete_last_message_from_db(h, c, ok) ==
    IF ok THEN [h EXCEPT ![c] = SubSeq(@, 1, IF Len(@) >= 1 THEN Len(@) - 1 ELSE 0)] ELSE h

\* SQL: DELETE ... WHERE id IN (SELECT id ... ORDER BY id DESC LIMIT 2)
delete_last_interaction_from_db(h, c, ok) ==
    IF ok THEN [h EXCEPT ![c] = SubSeq(@, 1, IF Len(@) >= 2 THEN Len(@) - 2 ELSE 0)] ELSE h

-----------------------------------------------------------------------------
(* State *)

VARIABLES
    queue,       \* REQUEST_QUEUE: the pending jobs, head first
    unfinished,  \* REQUEST_QUEUE._unfinished_tasks: puts minus task_done calls
    nextId,      \* the number the next job put on the queue gets (order of the puts)
    produced,    \* how many jobs the user-facing producers have put so far
    worker,      \* per dispatcher task: where it stands and its handler's locals
    inflight,    \* completions.create calls running in a thread right now
    hist,        \* conversations table: per chat, the messages in id order
    summary,     \* long_term_memory table: per chat, the row if there is one
    memory,      \* user_data['long_term_memory_enabled'] per (private) chat
    chatData,    \* chat_data: generated_scene, generated_persona and the settings in
                 \* use: scenery, persona_name, persona_prompt (<<>> when not set)
    prod,        \* the chat_handler call in progress, if any
    phase,       \* "running", or "shutdown" once post_shutdown_callback has run
    clientInit,  \* whether OpenAI(...) could be constructed at import
    dbFaulty,    \* the SQLite statements that may fail in this run: "none", those on
                 \* long_term_memory ("summary"), or "all"
    started,     \* ids of the jobs in the order the dispatcher took them
    done,        \* how many handler calls have returned or raised
    sums,        \* per chat, the summaries stored by consolidations since the last clear
    readLost,    \* per chat, whether a consolidation stored a summary after failing to read the old one
    delivery,    \* a call of send_final_response that posts its text as new messages
    regenerated, \* how many /regenerate commands have deleted a turn
    stale        \* ids of the jobs that were pending or in flight when their chat was cleared

vars == << queue, unfinished, nextId, produced, worker, inflight, hist, summary,
           memory, chatData, prod, phase, clientInit, dbFaulty, started, done,
           sums, readLost, delivery, regenerated, stale >>

\* how a statement on the conversations table may go
DbOk == IF dbFaulty = "all" THEN BOOLEAN ELSE {TRUE}
HistReads == IF dbFaulty = "all" THEN {"ok", "fail", "fail_select"} ELSE {"ok"}

\* how a statement on the long_term_memory table may go
SummaryOk == IF dbFaulty = "none" THEN {TRUE} ELSE BOOLEAN

\* the dispatcher between two jobs: awaiting REQUEST_QUEUE.get()
\* caught: whether the iteration before went through `except Exception`
IdleWorker(caught) ==
    [ pc |-> "idle", job |-> NoJob, total |-> 0, memEn |-> FALSE, prompt |-> <<>>,
      resp |-> <<>>, outcome |-> "none", final |-> <<>>, caught |-> caught, at |-> "idle" ]

\* no call of send_final_response is looked at on its own
NoDelivery == [pc |-> "none", text |-> <<>>, limit |-> 0, parts |-> <<>>, sent |-> <<>>]

IdleProducer ==
    [pc |-> "idle", chat |-> 0, placeholder |-> FALSE, pos |-> 0, notice |-> "none",
     text |-> <<>>]

NoChatData ==
    [scene |-> <<>>, persona |-> [set |-> FALSE, name |-> <<>>, prompt |-> <<>>],
     scenery |-> <<>>, persona_name |-> <<>>, persona_prompt |-> <<>>]

\* a conversation that was left with n messages by earlier turns
RECURSIVE Prefill(_)
Prefill(n) ==
    IF n = 0 THEN <<>>
    ELSE Append(Prefill(n - 1),
                Message(IF n % 2 = 1 THEN "user" ELSE "assistant", << "earlier" >>))

OldSummary == << "They arrived." >>

\* what the database file holds for a chat when the process starts: nothing,
\* or the turns and the summary earlier runs left there
InitStores ==
    { [len |-> 0, summ |-> NoSummary],
      [len |-> 14, summ |-> NoSummary],
      [len |-> 28, summ |-> NoSummary],
      [len |-> 28, summ |-> [present |-> TRUE, text |-> OldSummary]] }

\* the chats other than chat 1 are new to the bot
InitDatabases ==
    { st \in [Chats -> InitStores] : \A c \in Chats : c # 1 => st[c].len = 0 }

\* the bot and its database when the process starts
InitProgram(faulty) ==
    /\ queue = <<>>
    /\ unfinished = 0
    /\ nextId = 1
    /\ produced = 0
    /\ worker = [w \in Workers |-> IdleWorker(FALSE)]
    /\ inflight = 0
    /\ \E st \in InitDatabases :
          /\ hist = [c \in Chats |-> Prefill(st[c].len)]
          /\ summary = [c \in Chats |-> st[c].summ]
          /\ sums = [c \in Chats |-> IF st[c].summ.present THEN << st[c].summ.text >> ELSE <<>>]
    /\ memory = [c \in Chats |-> MASTER_MEMORY_SWITCH]
    /\ chatData = [c \in Chats |-> NoChatData]
    /\ prod = IdleProducer
    /\ phase = "running"
    /\ clientInit \in BOOLEAN
    /\ dbFaulty = faulty
    /\ started = <<>>
    /\ done = 0
    /\ readLost = [c \in Chats |-> FALSE]
    /\ regenerated = 0
    /\ stale = {}

InitWith(faulty) ==
    /\ InitProgram(faulty)
    /\ delivery = NoDelivery

Init == InitWith("none")

-----------------------------------------------------------------------------
(* The Backend Client and the handlers' pure parts *)

\* a client whose last `except` hands back None instead of a text
get_ai_response_or_none(outcome, raw) ==
    CASE outcome = "not_init"   -> NotInitMsg
      [] outcome = "ok"         -> Strip(raw)
      [] outcome = "timeout"    -> TimeoutMsg
      [] outcome = "connection" -> ConnectionMsg
      [] OTHER                  -> <<>>

\* _get_ai_response: the text handed back for each way the request can end
get_ai_response(outcome, raw) ==
    CASE outcome = "not_init"   -> NotInitMsg
      [] outcome = "ok"         -> Strip(raw)
      [] outcome = "timeout"    -> TimeoutMsg
      [] outcome = "connection" -> ConnectionMsg
      [] OTHER                  -> CriticalMsg

\* a filter that knows the word "error" only
ShouldPersistErrorOnly(resp) == Truthy(resp) /\ ~Contains(resp, "error")

\* process_chat_job: the condition under which the turn is written to the database
ShouldPersist(resp) ==
    Truthy(resp) /\ ~Contains(resp, "error") /\ ~Contains(resp, "timed out")

\* the condition of process_chat_job for an interval of `interval` messages
ShouldConsolidateAt(memEn, total, interval) ==
    memEn /\ (total + 2) % interval = 0 /\ total > 0

\* a chat handler that consolidates whether the user's memory is on or off
ShouldConsolidateAnyMode(memEn, total) ==
    ShouldConsolidateAt(TRUE, total, MEMORY_CONSOLIDATION_INTERVAL)

\* process_chat_job: the condition under which a consolidation job is queued
ShouldConsolidate(memEn, total) ==
    ShouldConsolidateAt(memEn, total, MEMORY_CONSOLIDATION_INTERVAL)

\* process_chat_job: the message list sent to the backend.  `messages` and
\* `recent_history` are the same list object, so the emptiness test that picks
\* the framed first message sees the summary message when one was inserted.
ChatPrompt(recent, memEn, summ, text) ==
    LET messages == IF memEn /\ SummaryTruthy(summ)
                    THEN << Message("system", << "(Memory: " >> \o summ.text \o << ")" >>) >>
                         \o recent
                    ELSE recent
    IN  IF messages = <<>>
        THEN Append(messages, Message("user", SystemPrompt \o << "\n\n" >> \o text))
        ELSE Append(messages, Message("user", text))

\* a consolidation that sends only the newest MAX_HISTORY_MESSAGES messages
MemoryPromptRecent(full) ==
    Last(full, MAX_HISTORY_MESSAGES) \o << Message("user", SummariseInstruction) >>

\* process_memory_job: the transcript followed by the instruction
MemoryPrompt(full) == full \o << Message("user", SummariseInstruction) >>

\* a consolidation that overwrites the stored summary
NewSummaryOnly(old, s) == Strip(s)

\* process_memory_job: the text written back to long_term_memory
NewSummary(old, s) ==
    Strip(IF SummaryTruthy(old) THEN old.text \o << "\n\n" >> \o s ELSE s)

\* a delivery that sends the text as it got it
FinalTextAsIs(text) == text

\* send_final_response: the text actually delivered
FinalText(text) == IF Truthy(text) THEN text ELSE EmptyNotice

\* Python: text.split(sep)[k] for k = 0, 1 (when sep occurs in text)
FirstIndex(t, tok) == CHOOSE i \in 1..Len(t) : t[i] = tok /\ \A j \in 1..(i - 1) : t[j] # tok

SplitFirst(t, sep) == SubSeq(t, 1, FirstIndex(t, sep) - 1)

SplitSecond(t, sep) ==
    LET rest == SubSeq(t, FirstIndex(t, sep) + 1, Len(t))
    IN  IF Contains(rest, sep) THEN SubSeq(rest, 1, FirstIndex(rest, sep) - 1) ELSE rest

\* Python: text.replace(tok, "")
Remove(t, tok) == SelectSeq(t, LAMBDA x : x # tok)

NoPersona == [set |-> FALSE, name |-> <<>>, prompt |-> <<>>]

\* a parse that asks for the delimiter only
ParsePersonaLenient(text) ==
    IF ~Contains(text, "###") THEN NoPersona
    ELSE [set |-> TRUE,
          name |-> Strip(Remove(SplitFirst(text, "###"), "NAME:")),
          prompt |-> Strip(Remove(SplitSecond(text, "###"), "PROMPT:"))]

\* process_persona_gen_job: the parse of the completion; set = FALSE stands for
\* the ValueError raised inside the try block
ParsePersona(text) ==
    IF ~Contains(text, "###") THEN NoPersona
    ELSE LET name == Strip(Remove(SplitFirst(text, "###"), "NAME:"))
             prompt == Strip(Remove(SplitSecond(text, "###"), "PROMPT:"))
         IN  IF name = <<>> \/ prompt = <<>> THEN NoPersona
             ELSE [set |-> TRUE, name |-> name, prompt |-> prompt]

\* a confirmation that reads chat_data['generated_scene'] and leaves it there
UseGeneratedSceneKept(d) ==
    IF Truthy(d.scene) THEN [d EXCEPT !.scenery = d.scene] ELSE d

\* use_generated_scene_handler: chat_data.pop('generated_scene', None), and
\* the scene becomes the scenery when there was one
UseGeneratedScene(d) ==
    IF Truthy(d.scene)
    THEN [d EXCEPT !.scenery = d.scene, !.scene = <<>>]
    ELSE [d EXCEPT !.scene = <<>>]

\* use_generated_persona: chat_data.pop('generated_persona', None), and the
\* persona becomes the active one when there was one (the entry it also gets
\* in user_data['custom_personas'] is read by nothing kept here)
UseGeneratedPersona(d) ==
    IF d.persona.set
    THEN [d EXCEPT !.persona_name = d.persona.name,
                   !.persona_prompt = d.persona.prompt,
                   !.persona = NoPersona]
    ELSE [d EXCEPT !.persona = NoPersona]

-----------------------------------------------------------------------------
(* The dispatcher: ai_worker and the job handlers *)

\* ai_worker: the handler returned, REQUEST_QUEUE.task_done() and back to get()
Returned(w) ==
    /\ worker' = [worker EXCEPT ![w] = IdleWorker(FALSE)]
    /\ unfinished' = unfinished - 1
    /\ done' = done + 1

\* an ai_worker whose `except Exception` leaves the loop
LoopExit == [IdleWorker(TRUE) EXCEPT !.pc = "stopped"]

\* where ai_worker goes when the handler raised an Exception: the next iteration
AfterException == IdleWorker(TRUE)

\* ai_worker: `except Exception`: log, task_done() only if the queue is not
\* empty, and on to the next iteration
Raised(w) ==
    /\ worker' = [worker EXCEPT ![w] = AfterException]
    /\ unfinished' = IF queue # <<>> THEN unfinished - 1 ELSE unfinished
    /\ done' = done + 1

\* the handler goes on to its next await
Continue(w, rec) ==
    /\ worker' = [worker EXCEPT ![w] = rec]
    /\ UNCHANGED << unfinished, done >>

\* What a handler does with the text _get_ai_response handed back, up to its
\* next await.  rd, wr: whether get_summary and update_summary go through.
Respond(w, rec, text, outcome) ==
    LET c == rec.job.chat
        got == [rec EXCEPT !.resp = text, !.outcome = outcome]
    IN
    CASE rec.job.type = "chat" ->
           \* process_chat_job enters send_final_response
           /\ Continue(w, [got EXCEPT !.final = FinalText(text),
                                      !.pc = IF rec.job.placeholder THEN "edit" ELSE "post"])
           /\ UNCHANGED << chatData, summary, sums, readLost >>
      [] rec.job.type = "generate_scene" ->
           /\ chatData' = IF Truthy(text) THEN [chatData EXCEPT ![c].scene = text]
                          ELSE chatData
           /\ Continue(w, [got EXCEPT !.pc = "reply"])
           /\ UNCHANGED << summary, sums, readLost >>
      [] rec.job.type = "generate_persona" ->
           LET parsed == ParsePersona(text) IN
           /\ chatData' = IF parsed.set THEN [chatData EXCEPT ![c].persona = parsed]
                          ELSE chatData
           /\ Continue(w, [got EXCEPT !.pc = IF parsed.set THEN "reply" ELSE "reply_err"])
           /\ UNCHANGED << summary, sums, readLost >>
      [] rec.job.type = "consolidate_memory" ->
           IF Truthy(text)
           THEN \E rd \in SummaryOk, wr \in SummaryOk :
                LET old == get_summary(summary, c, rd) IN
                /\ summary' = update_summary(summary, c, NewSummary(old, text), wr)
                /\ sums' = IF wr /\ outcome = "ok"
                           THEN [sums EXCEPT ![c] = Append(@, text)] ELSE sums
                /\ readLost' = IF wr /\ ~rd THEN [readLost EXCEPT ![c] = TRUE] ELSE readLost
                /\ Continue(w, [got EXCEPT !.pc = "notify"])
                /\ UNCHANGED chatData
           ELSE /\ Returned(w)
                /\ UNCHANGED << chatData, summary, sums, readLost >>

\* _get_ai_response is entered: without a client it returns at once, with one
\* the request runs in a thread and the handler waits for it
Ask(w, rec) ==
    IF clientInit
    THEN /\ Continue(w, [rec EXCEPT !.pc = "call"])
         /\ inflight' = inflight + 1
         /\ UNCHANGED << chatData, summary, sums, readLost >>
    ELSE /\ Respond(w, rec, get_ai_response("not_init", <<>>), "not_init")
         /\ UNCHANGED inflight

\* a dispatcher that takes no further job once a handler has raised
CanGetUnlessCaught(w) == worker[w].pc = "idle" /\ ~worker[w].caught /\ queue # <<>>

\* the dispatcher may take a job when it waits in REQUEST_QUEUE.get()
CanGet(w) == worker[w].pc = "idle" /\ queue # <<>>

\* ai_worker: job = await REQUEST_QUEUE.get(), then the handler up to its first
\* await: send_chat_action for chat and consolidation jobs, the backend call for
\* scene and persona jobs
WorkerGet(w) ==
    /\ CanGet(w)
    /\ LET job == QueueGet(queue).job
           rec == [IdleWorker(worker[w].caught) EXCEPT !.job = job]
       IN  /\ queue' = QueueGet(queue).rest
           /\ started' = Append(started, job.id)
           /\ IF job.type \in {"chat", "consolidate_memory"}
              THEN /\ Continue(w, [rec EXCEPT !.pc = "typing"])
                   /\ UNCHANGED << inflight, chatData, summary, sums, readLost >>
              ELSE Ask(w, rec)
    /\ UNCHANGED << stale, regenerated, delivery, nextId, produced, hist, memory, prod, phase, clientInit, dbFaulty >>

\* send_chat_action came back: it raised, or the handler reads the database,
\* builds its prompt and asks the backend
TypingDone(w) ==
    /\ worker[w].pc = "typing"
    /\ LET rec == worker[w]
           c == rec.job.chat
       IN \/ /\ Raised(w)
             /\ UNCHANGED << inflight, chatData, summary, sums, readLost >>
          \/ /\ rec.job.type = "chat"
             /\ \E how \in HistReads, rd \in (IF memory[c] THEN SummaryOk ELSE {TRUE}) :
                   LET r == get_history_from_db(hist, c, MAX_HISTORY_MESSAGES, how)
                       memEn == memory[c]
                       summ == IF memEn THEN get_summary(summary, c, rd) ELSE NoSummary
                   IN  Ask(w, [rec EXCEPT !.total = r.total, !.memEn = memEn,
                                          !.prompt = ChatPrompt(r.history, memEn, summ,
                                                                rec.job.text)])
          \/ /\ rec.job.type = "consolidate_memory"
             /\ \E how \in HistReads :
                   LET full == get_history_from_db(hist, c, 0, how).history
                   IN  IF full = <<>>
                       THEN /\ Returned(w)
                            /\ UNCHANGED << inflight, chatData, summary, sums, readLost >>
                       ELSE Ask(w, [rec EXCEPT !.prompt = MemoryPrompt(full)])
    /\ UNCHANGED << stale, regenerated, delivery, queue, nextId, produced, hist, memory, prod, phase, clientInit,
                    dbFaulty, started >>

\* the request to the backend ended one way or another
CallEnd(w) ==
    /\ worker[w].pc = "call"
    /\ inflight' = inflight - 1
    /\ \E outcome \in CallOutcomes :
       \E raw \in (IF outcome = "ok" THEN RawCompletions(worker[w].job.type) ELSE {<<>>}) :
          Respond(w, worker[w], get_ai_response(outcome, raw), outcome)
    /\ UNCHANGED << stale, regenerated, delivery, queue, nextId, produced, hist, memory, prod, phase, clientInit,
                    dbFaulty, started >>

\* process_chat_job after send_final_response returned: the two inserts and the
\* consolidation job, then the handler returns and ai_worker calls task_done()
PersistAndReturn(w) ==
    LET rec == worker[w]
        c == rec.job.chat
        keep == ShouldPersist(rec.resp)
        cons == keep /\ ShouldConsolidate(rec.memEn, rec.total)
    IN  /\ IF keep
           THEN \E w1 \in DbOk, w2 \in DbOk :
                   hist' = add_message_to_db(
                               add_message_to_db(hist, c, "user", rec.job.text, w1),
                               c, "assistant", rec.resp, w2)
           ELSE hist' = hist
        /\ queue' = IF cons
                    THEN QueuePut(queue, Job(nextId, "consolidate_memory", c, <<>>, FALSE))
                    ELSE queue
        /\ nextId' = IF cons THEN nextId + 1 ELSE nextId
        /\ unfinished' = IF cons THEN unfinished ELSE unfinished - 1
        /\ worker' = [worker EXCEPT ![w] = IdleWorker(FALSE)]
        /\ done' = done + 1

\* send_final_response: placeholder.edit_text came back
EditDone(w) ==
    /\ worker[w].pc = "edit"
    /\ \E res \in {"ok", "not_modified", "bad_request", "error"} :
          CASE res \in {"ok", "not_modified"} ->
                 PersistAndReturn(w)
            [] res = "bad_request" ->
                 /\ Continue(w, [worker[w] EXCEPT !.pc = "post"])
                 /\ UNCHANGED << hist, queue, nextId >>
            [] res = "error" ->
                 /\ Raised(w)
                 /\ UNCHANGED << hist, queue, nextId >>
    /\ UNCHANGED << stale, regenerated, delivery, produced, inflight, summary, memory, chatData, prod, phase,
                    clientInit, dbFaulty, started, sums, readLost >>

\* send_final_response: the reply_text calls came back (a failure is caught and logged)
PostDone(w) ==
    /\ worker[w].pc = "post"
    /\ \E ok \in BOOLEAN : PersistAndReturn(w)
    /\ UNCHANGED << stale, regenerated, delivery, produced, inflight, summary, memory, chatData, prod, phase,
                    clientInit, dbFaulty, started, sums, readLost >>

\* the last message of a scene, persona or consolidation handler came back
ReplyDone(w) ==
    /\ worker[w].pc \in {"reply", "reply_err", "notify"}
    /\ \E ok \in BOOLEAN :
          IF ok THEN Returned(w)
          ELSE IF worker[w].pc = "reply" /\ worker[w].job.type = "generate_persona"
          THEN Continue(w, [worker[w] EXCEPT !.pc = "reply_err"])
          ELSE Raised(w)
    /\ UNCHANGED << stale, regenerated, delivery, queue, nextId, produced, inflight, hist, summary, memory, chatData,
                    prod, phase, clientInit, dbFaulty, started, sums, readLost >>

-----------------------------------------------------------------------------
(* The producers and the other user commands.  The Application is built      *)
(* without concurrent updates, so one update handler runs at a time; the     *)
(* dispatcher task runs in between whenever a handler awaits.                *)

\* a chat_handler that does not look at what the liveness probe said
ChatHandlerChecksNameOnly(c, named, up) ==
    IF ~named
    THEN [pc |-> "notifying", chat |-> c, placeholder |-> FALSE, pos |-> 0, notice |-> "setup",
          text |-> UserText]
    ELSE IF queue = <<>>
    THEN [pc |-> "replying", chat |-> c, placeholder |-> TRUE, pos |-> 0, notice |-> "none",
          text |-> UserText]
    ELSE [pc |-> "replying", chat |-> c, placeholder |-> FALSE, pos |-> Len(queue) + 1,
          notice |-> "position", text |-> UserText]

\* a chat_handler that creates the placeholder behind other jobs as well
ChatHandlerChecksPlaceholderAlways(c, named, up) ==
    IF ~named
    THEN [pc |-> "notifying", chat |-> c, placeholder |-> FALSE, pos |-> 0, notice |-> "setup",
          text |-> UserText]
    ELSE IF ~up
    THEN [pc |-> "notifying", chat |-> c, placeholder |-> FALSE, pos |-> 0, notice |-> "offline",
          text |-> UserText]
    ELSE IF queue = <<>>
    THEN [pc |-> "replying", chat |-> c, placeholder |-> TRUE, pos |-> 0, notice |-> "none",
          text |-> UserText]
    ELSE [pc |-> "replying", chat |-> c, placeholder |-> TRUE, pos |-> Len(queue) + 1,
          notice |-> "position", text |-> UserText]

\* chat_handler in a private chat, up to the message it sends first: the
\* "run /start" notice without a display name, the offline notice when
\* is_lm_studio_online() said no, else the placeholder when the queue is empty
\* and the position notice when it is not
ChatHandlerChecks(c, named, up) ==
    IF ~named
    THEN [pc |-> "notifying", chat |-> c, placeholder |-> FALSE, pos |-> 0, notice |-> "setup",
          text |-> UserText]
    ELSE IF ~up
    THEN [pc |-> "notifying", chat |-> c, placeholder |-> FALSE, pos |-> 0, notice |-> "offline",
          text |-> UserText]
    ELSE IF queue = <<>>
    THEN [pc |-> "replying", chat |-> c, placeholder |-> TRUE, pos |-> 0, notice |-> "none",
          text |-> UserText]
    ELSE [pc |-> "replying", chat |-> c, placeholder |-> FALSE, pos |-> Len(queue) + 1,
          notice |-> "position", text |-> UserText]

\* chat_handler up to its second await: outside a private chat it returns at
\* once; in one the liveness probe came back (when the name is set) and the
\* handler sends its first message
ChatHandlerStart(c) ==
    /\ phase = "running"
    /\ prod.pc = "idle"
    /\ produced < MaxEnqueues
    /\ \E private \in BOOLEAN, named \in BOOLEAN, up \in BOOLEAN :
          prod' = IF ~private THEN prod ELSE ChatHandlerChecks(c, named, up)
    /\ UNCHANGED << stale, regenerated, delivery, queue, unfinished, nextId, produced, worker, inflight, hist, summary,
                    memory, chatData, phase, clientInit, dbFaulty, started, done, sums,
                    readLost >>

\* chat_handler: reply_text came back; when it did not raise the job is put
ChatHandlerPut ==
    /\ prod.pc = "replying"
    /\ \E ok \in BOOLEAN :
          IF ok
          THEN /\ queue' = QueuePut(queue, Job(nextId, "chat", prod.chat, prod.text,
                                               prod.placeholder))
               /\ nextId' = nextId + 1
               /\ unfinished' = unfinished + 1
               /\ produced' = produced + 1
          ELSE UNCHANGED << queue, nextId, unfinished, produced >>
    /\ prod' = IdleProducer
    /\ UNCHANGED << stale, regenerated, delivery, worker, inflight, hist, summary, memory, chatData, phase, clientInit,
                    dbFaulty, started, done, sums, readLost >>

\* chat_handler: the "run /start" notice or the offline notice came back (or
\* raised), and the handler returns
ChatHandlerNotified ==
    /\ prod.pc = "notifying"
    /\ prod' = IdleProducer
    /\ UNCHANGED << stale, regenerated, delivery, queue, unfinished, nextId, produced, worker, inflight, hist, summary,
                    memory, chatData, phase, clientInit, dbFaulty, started, done, sums,
                    readLost >>

\* generate_surprise_scene and generate_surprise_persona: the job is put once
\* the two messages to the user went through
GenerateJob(c, type) ==
    /\ phase = "running"
    /\ prod.pc = "idle"
    /\ produced < MaxEnqueues
    /\ queue' = QueuePut(queue, Job(nextId, type, c, << "prompt" >>, FALSE))
    /\ nextId' = nextId + 1
    /\ unfinished' = unfinished + 1
    /\ produced' = produced + 1
    /\ UNCHANGED << stale, regenerated, delivery, worker, inflight, hist, summary, memory, chatData, prod, phase,
                    clientInit, dbFaulty, started, done, sums, readLost >>

generate_surprise_scene(c) == GenerateJob(c, "generate_scene")

generate_surprise_persona(c) == GenerateJob(c, "generate_persona")

\* history variable: the jobs of chat c that are pending or in flight now,
\* added to `stale` when the chat is cleared
StaleJobs(c) ==
    { queue[i].id : i \in { j \in 1..Len(queue) : queue[j].chat = c } }
    \cup { worker[w].job.id :
              w \in { v \in Workers : worker[v].pc \notin {"idle", "stopped"}
                                        /\ worker[v].job.chat = c } }

\* clear_history, and the same two statements in start_command and in
\* delete_data_choice for del_history and del_all
clear_history(c) ==
    /\ phase = "running"
    /\ prod.pc = "idle"
    /\ \E ok \in SummaryOk :
          /\ hist' = clear_history_in_db(hist, c, ok)
          /\ summary' = clear_summary_in_db(summary, c, ok)
          /\ sums' = IF ok THEN [sums EXCEPT ![c] = <<>>] ELSE sums
          /\ readLost' = IF ok THEN [readLost EXCEPT ![c] = FALSE] ELSE readLost
          /\ stale' = IF ok THEN stale \cup StaleJobs(c) ELSE stale
    /\ chatData' = [chatData EXCEPT ![c] = NoChatData]
    /\ UNCHANGED << regenerated, delivery, queue, unfinished, nextId, produced, worker, inflight, memory, prod,
                    phase, clientInit, dbFaulty, started, done >>

toggle_memory_handler(c) ==
    /\ phase = "running"
    /\ prod.pc = "idle"
    /\ memory' = [memory EXCEPT ![c] = ~@]
    /\ UNCHANGED << stale, regenerated, delivery, queue, unfinished, nextId, produced, worker, inflight, hist, summary,
                    chatData, prod, phase, clientInit, dbFaulty, started, done, sums,
                    readLost >>

\* a /start that throws the pending jobs away with the history
start_command_purging(c) ==
    /\ phase = "running"
    /\ prod.pc = "idle"
    /\ \E ok \in SummaryOk :
          /\ hist' = clear_history_in_db(hist, c, ok)
          /\ summary' = clear_summary_in_db(summary, c, ok)
          /\ sums' = IF ok THEN [sums EXCEPT ![c] = <<>>] ELSE sums
          /\ readLost' = IF ok THEN [readLost EXCEPT ![c] = FALSE] ELSE readLost
          /\ stale' = IF ok THEN stale \cup StaleJobs(c) ELSE stale
    /\ chatData' = [chatData EXCEPT ![c] = NoChatData]
    /\ queue' = <<>>
    /\ unfinished' = unfinished - Len(queue)
    /\ UNCHANGED << regenerated, delivery, nextId, produced, worker, inflight, memory, prod,
                    phase, clientInit, dbFaulty, started, done >>

\* start_command up to its first await: the history and the summary of the
\* chat are deleted and chat_data is cleared
start_command(c) ==
    /\ phase = "running"
    /\ prod.pc = "idle"
    /\ \E ok \in SummaryOk :
          /\ hist' = clear_history_in_db(hist, c, ok)
          /\ summary' = clear_summary_in_db(summary, c, ok)
          /\ sums' = IF ok THEN [sums EXCEPT ![c] = <<>>] ELSE sums
          /\ readLost' = IF ok THEN [readLost EXCEPT ![c] = FALSE] ELSE readLost
          /\ stale' = IF ok THEN stale \cup StaleJobs(c) ELSE stale
    /\ chatData' = [chatData EXCEPT ![c] = NoChatData]
    /\ UNCHANGED << regenerated, delivery, queue, unfinished, nextId, produced, worker,
                    inflight, memory, prod, phase, clientInit, dbFaulty, started, done >>

\* delete_data_choice after query.answer(): del_history and del_all clear the
\* chat as /clear does, del_all clears user_data as well (the memory setting
\* falls back to its default), the other choices touch no state kept here
delete_data_choice(c) ==
    /\ phase = "running"
    /\ prod.pc = "idle"
    /\ \E choice \in {"del_profile", "del_personas", "del_history", "del_all", "del_cancel"} :
          IF choice \in {"del_history", "del_all"}
          THEN /\ \E ok \in SummaryOk :
                     /\ hist' = clear_history_in_db(hist, c, ok)
                     /\ summary' = clear_summary_in_db(summary, c, ok)
                     /\ sums' = IF ok THEN [sums EXCEPT ![c] = <<>>] ELSE sums
                     /\ readLost' = IF ok THEN [readLost EXCEPT ![c] = FALSE] ELSE readLost
                     /\ stale' = IF ok THEN stale \cup StaleJobs(c) ELSE stale
               /\ chatData' = [chatData EXCEPT ![c] = NoChatData]
               /\ memory' = IF choice = "del_all"
                             THEN [memory EXCEPT ![c] = MASTER_MEMORY_SWITCH] ELSE memory
          ELSE UNCHANGED << hist, summary, sums, readLost, chatData, memory, stale >>
    /\ UNCHANGED << regenerated, delivery, queue, unfinished, nextId, produced, worker, inflight, prod,
                    phase, clientInit, dbFaulty, started, done >>

\* use_generated_scene_handler after query.answer(): the generated scene is
\* taken out of chat_data and applied, or the error is reported; the handler
\* returns when its edit_message_text came back
use_generated_scene_handler(c) ==
    /\ phase = "running"
    /\ prod.pc = "idle"
    /\ chatData' = [chatData EXCEPT ![c] = UseGeneratedScene(@)]
    /\ prod' = [IdleProducer EXCEPT !.pc = "notifying", !.chat = c,
                                    !.notice = IF Truthy(chatData[c].scene)
                                               THEN "scene_set" ELSE "scene_error"]
    /\ UNCHANGED << stale, regenerated, delivery, queue, unfinished, nextId, produced, worker,
                    inflight, hist, summary, memory, phase, clientInit, dbFaulty, started,
                    done, sums, readLost >>

\* use_generated_persona after query.answer(), in the same way
use_generated_persona(c) ==
    /\ phase = "running"
    /\ prod.pc = "idle"
    /\ chatData' = [chatData EXCEPT ![c] = UseGeneratedPersona(@)]
    /\ prod' = [IdleProducer EXCEPT !.pc = "notifying", !.chat = c,
                                    !.notice = IF chatData[c].persona.set
                                               THEN "persona_set" ELSE "persona_error"]
    /\ UNCHANGED << stale, regenerated, delivery, queue, unfinished, nextId, produced, worker,
                    inflight, hist, summary, memory, phase, clientInit, dbFaulty, started,
                    done, sums, readLost >>

\* a /regenerate that hands on the content of the newest message, whoever wrote it
LastText(h) == h[Len(h)].content

\* regenerate_command: the text it hands to chat_handler, the content of the
\* user message among the two messages read, newest first (<<>> for None)
LastUserText(h) ==
    IF h[Len(h)].role = "user" THEN h[Len(h)].content
    ELSE IF h[Len(h) - 1].role = "user" THEN h[Len(h) - 1].content
    ELSE <<>>

\* regenerate_command up to its first await: without an assistant message at
\* the end of the history it sends a notice; else it deletes the last two
\* messages and either sends a notice (no user text found) or goes through
\* chat_handler with the text of the last user message, up to the message
\* chat_handler sends first
regenerate_command(c) ==
    /\ phase = "running"
    /\ prod.pc = "idle"
    /\ produced < MaxEnqueues
    /\ regenerated < MaxRegenerates
    /\ \E private \in BOOLEAN, how \in HistReads, del \in DbOk,
          named \in BOOLEAN, up \in BOOLEAN :
          LET h == get_history_from_db(hist, c, 2, how).history IN
          IF ~private
          THEN UNCHANGED << prod, hist, regenerated >>
          ELSE IF Len(h) < 2 \/ h[Len(h)].role # "assistant"
          THEN /\ prod' = [IdleProducer EXCEPT !.pc = "notifying", !.chat = c,
                                               !.notice = "nothing"]
               /\ hist' = hist
               /\ regenerated' = regenerated
          ELSE /\ hist' = delete_last_interaction_from_db(hist, c, del)
               /\ regenerated' = regenerated + 1
               /\ prod' = IF ~Truthy(LastUserText(h))
                           THEN [IdleProducer EXCEPT !.pc = "notifying", !.chat = c,
                                                     !.notice = "no_user"]
                           ELSE [ChatHandlerChecks(c, named, up) EXCEPT
                                    !.text = LastUserText(h)]
    /\ UNCHANGED << stale, delivery, queue, unfinished, nextId, produced, worker, inflight, summary,
                    memory, chatData, phase, clientInit, dbFaulty, started, done, sums,
                    readLost >>

-----------------------------------------------------------------------------
(* Shut-down: bot.py post_shutdown_callback *)

\* a cancellation the task swallows
CancelIgnored(rec) == rec

\* task.cancel(): CancelledError is thrown into ai_worker at the await it is
\* suspended in; inside a handler nothing catches it (it is no Exception), so
\* it reaches ai_worker's `except asyncio.CancelledError: break`.  `at` keeps
\* the await the task was cancelled in and `job` the job it was handling.
Cancelled(rec) ==
    IF rec.pc = "stopped" THEN rec
    ELSE [IdleWorker(rec.caught) EXCEPT !.pc = "stopped", !.at = rec.pc, !.job = rec.job]

\* a shut-down that cancels the dispatcher and leaves the queue as it is
post_shutdown_without_drain ==
    /\ phase = "running"
    /\ prod.pc = "idle"
    /\ phase' = "shutdown"
    /\ worker' = [w \in Workers |-> Cancelled(worker[w])]
    /\ UNCHANGED << stale, regenerated, delivery, queue, unfinished, nextId, produced, inflight,
                    hist, summary, memory, chatData, prod, clientInit, dbFaulty, started,
                    done, sums, readLost >>

\* post_shutdown_callback: cancel the worker task, wait for it to end, then
\* empty the queue with get_nowait() and task_done() per job.  The Application
\* has stopped handling updates by then, so only the worker runs in between.
post_shutdown_callback ==
    /\ phase = "running"
    /\ prod.pc = "idle"
    /\ phase' = "shutdown"
    /\ worker' = [w \in Workers |-> Cancelled(worker[w])]
    /\ queue' = <<>>
    /\ unfinished' = unfinished - Len(queue)
    /\ UNCHANGED << stale, regenerated, delivery, nextId, produced, inflight, hist, summary, memory, chatData, prod,
                    clientInit, dbFaulty, started, done, sums, readLost >>

\* asyncio.to_thread cannot stop its thread: the request of a cancelled handler
\* runs on and ends with nobody waiting for it
OrphanCallEnd ==
    /\ inflight > Cardinality({w \in Workers : worker[w].pc = "call"})
    /\ inflight' = inflight - 1
    /\ UNCHANGED << stale, regenerated, delivery, queue, unfinished, nextId, produced, worker, hist, summary, memory,
                    chatData, prod, phase, clientInit, dbFaulty, started, done, sums,
                    readLost >>

-----------------------------------------------------------------------------

Next ==
    \/ \E c \in Chats : ChatHandlerStart(c)
    \/ ChatHandlerPut
    \/ ChatHandlerNotified
    \/ \E c \in Chats : generate_surprise_scene(c)
    \/ \E c \in Chats : generate_surprise_persona(c)
    \/ \E c \in Chats : clear_history(c)
    \/ \E w \in Workers : WorkerGet(w)
    \/ \E w \in Workers : TypingDone(w)
    \/ \E w \in Workers : CallEnd(w)
    \/ \E w \in Workers : EditDone(w)
    \/ \E w \in Workers : PostDone(w)
    \/ \E w \in Workers : ReplyDone(w)
    \/ post_shutdown_callback
    \/ OrphanCallEnd

\* SQLite never fails
Spec == Init /\ [][Next]_vars

\* the statements on the long_term_memory table may fail
InitSummaryFaulty == InitWith("summary")

SpecSummaryFaulty == InitSummaryFaulty /\ [][Next]_vars

\* every SQLite statement may fail
InitFaulty == InitWith("all")

SpecFaulty == InitFaulty /\ [][Next]_vars

\* the users may also switch their long-term memory on and off
NextWithSettings ==
    \/ Next
    \/ \E c \in Chats : toggle_memory_handler(c)

SpecWithSettings == Init /\ [][NextWithSettings]_vars

\* the chat producer, the dispatcher and the commands that delete data, change
\* the memory setting or regenerate, while the bot is running
NextCommands ==
    \/ \E c \in Chats : ChatHandlerStart(c)
    \/ ChatHandlerPut
    \/ ChatHandlerNotified
    \/ \E w \in Workers : WorkerGet(w)
    \/ \E w \in Workers : TypingDone(w)
    \/ \E w \in Workers : CallEnd(w)
    \/ \E w \in Workers : EditDone(w)
    \/ \E w \in Workers : PostDone(w)
    \/ \E w \in Workers : ReplyDone(w)
    \/ \E c \in Chats : clear_history(c)
    \/ \E c \in Chats : toggle_memory_handler(c)
    \/ \E c \in Chats : start_command(c)
    \/ \E c \in Chats : delete_data_choice(c)
    \/ \E c \in Chats : regenerate_command(c)

\* the client was built, chat 1 has 28 messages behind it and no summary yet
InitCommands ==
    /\ Init
    /\ clientInit
    /\ Len(hist[1]) = 28
    /\ ~summary[1].present

SpecCommands == InitCommands /\ [][NextCommands]_vars

\* the scene and persona generators, the dispatcher on their jobs, the two
\* confirmation buttons and /clear
NextGenerated ==
    \/ \E c \in Chats : generate_surprise_scene(c)
    \/ \E c \in Chats : generate_surprise_persona(c)
    \/ \E w \in Workers : WorkerGet(w)
    \/ \E w \in Workers : CallEnd(w)
    \/ \E w \in Workers : ReplyDone(w)
    \/ \E c \in Chats : use_generated_scene_handler(c)
    \/ \E c \in Chats : use_generated_persona(c)
    \/ ChatHandlerNotified
    \/ \E c \in Chats : clear_history(c)

SpecGenerated == Init /\ [][NextGenerated]_vars

\* every await of the dispatcher task comes back: the queue hands over a
\* pending job, and the Telegram and backend calls of a handler return or raise
WorkerFairness ==
    \A w \in Workers :
        /\ WF_vars(WorkerGet(w))
        /\ WF_vars(TypingDone(w))
        /\ WF_vars(CallEnd(w))
        /\ WF_vars(EditDone(w))
        /\ WF_vars(PostDone(w))
        /\ WF_vars(ReplyDone(w))

SpecLive == Init /\ [][Next]_vars /\ WorkerFairness

-----------------------------------------------------------------------------
(* send_final_response posting a text as new messages, on its own: the      *)
(* text is a sequence of characters, here the numbers 1..n, so that every   *)
(* character is told from every other.                                      *)

Text(n) == [i \in 1..n |-> i]

Min(a, b) == IF a <= b THEN a ELSE b

\* Python: range(start, stop, step) as a list
RECURSIVE Range(_, _, _)
Range(start, stop, step) ==
    IF start >= stop THEN <<>> ELSE << start >> \o Range(start + step, stop, step)

\* a slice that loses its last character
SliceShort(text, i, j) == SubSeq(text, i + 1, Min(j, Len(text)) - 1)

\* Python: text[i:j] for 0 <= i <= j
Slice(text, i, j) == SubSeq(text, i + 1, Min(j, Len(text)))

\* send_final_response: the messages a text is posted as
PostParts(text, limit) ==
    IF Len(text) <= limit
    THEN << text >>
    ELSE LET starts == Range(0, Len(text), limit)
         IN  [k \in 1..Len(starts) |-> Slice(text, starts[k], starts[k] + limit)]

\* the texts and message lengths send_final_response is tried on
DeliveryInputs ==
    { [text |-> Text(n), limit |-> l] : n \in 1..MaxTextLen, l \in 1..MaxLimit }
        \cup { [text |-> Text(10000), limit |-> TELEGRAM_MAX_MESSAGE_LENGTH] }

InitDelivery ==
    /\ InitProgram("none")
    /\ clientInit
    /\ \A c \in Chats : hist[c] = <<>>
    /\ \E in \in DeliveryInputs :
          delivery = [pc |-> "start", text |-> in.text, limit |-> in.limit,
                      parts |-> <<>>, sent |-> <<>>]

\* send_final_response without a placeholder, up to its first reply_text
DeliveryStart ==
    /\ delivery.pc = "start"
    /\ delivery' = [delivery EXCEPT !.pc = "posting",
                                    !.parts = PostParts(delivery.text, delivery.limit)]
    /\ UNCHANGED << stale, regenerated, queue, unfinished, nextId, produced, worker, inflight, hist,
                    summary, memory, chatData, prod, phase, clientInit, dbFaulty, started,
                    done, sums, readLost >>

\* a reply_text came back: the next part, or `except Exception` ends the loop
DeliveryPost ==
    /\ delivery.pc = "posting"
    /\ \E ok \in BOOLEAN :
          delivery' =
             IF ~ok THEN [delivery EXCEPT !.pc = "failed"]
             ELSE LET sent == Append(delivery.sent, delivery.parts[Len(delivery.sent) + 1])
                  IN  [delivery EXCEPT !.sent = sent,
                                       !.pc = IF Len(sent) = Len(delivery.parts)
                                              THEN "done" ELSE "posting"]
    /\ UNCHANGED << stale, regenerated, queue, unfinished, nextId, produced, worker, inflight, hist,
                    summary, memory, chatData, prod, phase, clientInit, dbFaulty, started,
                    done, sums, readLost >>

NextDelivery ==
    \/ DeliveryStart
    \/ DeliveryPost

SpecDelivery == InitDelivery /\ [][NextDelivery]_vars

-----------------------------------------------------------------------------
(* Properties *)

Busy(w) == worker[w].pc \notin {"idle", "stopped"}

BackendFaults == {"not_init", "timeout", "connection", "other"}

\* C1: in every reachable state at most one backend completion call is in
\* progress, whatever the producers put on the queue while the dispatcher runs.
C1_AtMostOneInFlight == inflight <= 1

\* a call is in progress while chat_handler is about to put another job
C1_Witness == inflight = 1 /\ prod.pc = "replying"

\* C2: the dispatcher takes the jobs in the order of their puts (job ids count
\* the puts), and it has finished every job it took earlier before it takes
\* the next, the consolidation jobs put by the chat handler included.
C2_Fifo ==
    /\ \A i \in 1..Len(started) : started[i] = i
    /\ done >= Len(started) - 1
    /\ \A w \in Workers : Busy(w) => worker[w].job.id = Len(started)

\* the third job taken is a consolidation job the chat handler put behind a
\* job of a producer
C2_Witness ==
    \E w \in Workers :
        /\ worker[w].job.type = "consolidate_memory"
        /\ worker[w].job.id = 3
        /\ started = << 1, 2, 3 >>

\* C3: when a handler raises an Exception the dispatcher goes back to waiting
\* for a job (it never leaves its loop for that: it stops only at shut-down),
\* and with a job pending it can take it.
C3_FaultIsolation ==
    [][\A w \in Workers :
          /\ (Busy(w) /\ done' = done + 1 /\ worker'[w].caught)
                => (worker'[w].pc = "idle" /\ phase' = "running")
          /\ (worker'[w].pc = "stopped") => (phase' = "shutdown")
          /\ (worker[w].caught /\ worker[w].pc = "idle" /\ queue # <<>>)
                => ENABLED WorkerGet(w)
      ]_vars

\* the job after one whose handler raised is being handled
C3_Witness == \E w \in Workers : worker[w].caught /\ Busy(w)

\* this step puts a consolidation job for chat c at the tail of the queue
ConsolidationPut(c) ==
    /\ Len(queue') = Len(queue) + 1
    /\ queue'[Len(queue')].type = "consolidate_memory"
    /\ queue'[Len(queue')].chat = c

\* this step takes the number of persisted messages of chat c to or past a
\* multiple of the consolidation interval
ThresholdReached(c) ==
    Len(hist'[c]) \div MEMORY_CONSOLIDATION_INTERVAL
        > Len(hist[c]) \div MEMORY_CONSOLIDATION_INTERVAL

\* C4 (as claimed): with memory enabled, a successful chat turn that takes the
\* conversation's number of persisted messages to 15, 30, 45, ... puts one
\* consolidation job for it, and a consolidation job is put in no other step.
C4_OncePerThreshold ==
    [][\A c \in Chats :
          memory[c] =>
             /\ ConsolidationPut(c) => ThresholdReached(c)
             /\ (/\ ThresholdReached(c)
                 /\ \E w \in Workers : /\ worker[w].job.type = "chat"
                                       /\ worker[w].job.chat = c
                                       /\ worker[w].outcome = "ok")
                => ConsolidationPut(c)
      ]_vars

\* C5 (as claimed): a chat job whose backend call ended in a fault of any kind
\* leaves the conversation's history as it was and puts no consolidation job.
C5_FaultNotPersisted ==
    [][\A w \in Workers :
          (/\ worker[w].job.type = "chat"
           /\ worker[w].outcome \in BackendFaults
           /\ worker'[w] # worker[w])
          => (/\ hist'[worker[w].job.chat] = hist[worker[w].job.chat]
              /\ ~ConsolidationPut(worker[w].job.chat))
      ]_vars

\* C6: when the backend call of a chat job times out the handler enters
\* send_final_response with the fixed timeout text, and nothing the handler
\* does afterwards appends to the conversation's history.
C6_TimeoutDeliveredNotPersisted ==
    [][\A w \in Workers :
          LET a == worker[w]
              b == worker'[w]
          IN  /\ (a.job.type = "chat" /\ a.pc = "call" /\ b.outcome = "timeout")
                    => (/\ b.pc \in {"edit", "post"}
                        /\ b.final = TimeoutMsg
                        /\ hist' = hist)
              /\ (a.job.type = "chat" /\ a.outcome = "timeout" /\ b # a)
                    => (/\ hist'[a.job.chat] = hist[a.job.chat]
                        /\ ~ConsolidationPut(a.job.chat))
      ]_vars

\* the handler of a chat job is delivering the timeout text
C6_Witness ==
    \E w \in Workers :
        /\ worker[w].job.type = "chat"
        /\ worker[w].outcome = "timeout"
        /\ worker[w].pc \in {"edit", "post"}
        /\ worker[w].final = TimeoutMsg

\* C7 (as claimed): when the backend returned a completion for a chat job, the
\* handler has, by the time it returns, appended the user text and then the
\* reply to the conversation's history, whatever the reply says.  Stated here
\* for the non-empty replies of a handler that did not raise.
C7_SuccessPersistsPair ==
    [][\A w \in Workers :
          LET a == worker[w]
          IN  (/\ a.job.type = "chat"
               /\ a.outcome = "ok"
               /\ Truthy(a.resp)
               /\ worker'[w].pc = "idle"
               /\ ~worker'[w].caught)
              => hist'[a.job.chat] =
                    hist[a.job.chat] \o << Message("user", a.job.text),
                                           Message("assistant", a.resp) >>
      ]_vars

\* C8 (as claimed): when the backend call of a consolidation job ends in a
\* fault or in an empty completion, the handler leaves the stored summary as it
\* was, does not send the "memory formed" notice and puts no job on the queue.
C8_FaultedSummaryDropped ==
    [][\A w \in Workers :
          LET a == worker[w]
              b == worker'[w]
          IN  (/\ a.job.type = "consolidate_memory"
               /\ a.pc = "call"
               /\ b.pc # "stopped"
               /\ b # a
               /\ (b.outcome \in BackendFaults \/ done' = done + 1))
              => (/\ summary' = summary
                  /\ b.pc # "notify"
                  /\ queue' = queue)
      ]_vars

\* parts occur in text one after the other, in the order of parts
RECURSIVE InOrder(_, _)
InOrder(parts, text) ==
    IF parts = <<>> THEN TRUE
    ELSE LET p == Head(parts)
         IN  \E i \in 1..(Len(text) - Len(p) + 1) :
                /\ SubSeq(text, i, i + Len(p) - 1) = p
                /\ InOrder(Tail(parts), SubSeq(text, i + Len(p), Len(text)))

Pending(id) == \E i \in 1..Len(queue) : queue[i].id = id

\* the dispatcher has taken the job with this number
Taken(id) == \E i \in 1..Len(started) : started[i] = id

\* the numbers the jobs of one run can get: every producer job and at most one
\* consolidation job per chat job
JobIds == 1..(2 * MaxEnqueues)

\* C11: as long as the bot is not shut down, every job put on the queue is
\* eventually taken by the dispatcher, provided the awaits of the handlers
\* come back.
C11_EveryJobTaken ==
    \A id \in JobIds : Pending(id) ~> (Taken(id) \/ phase = "shutdown")

\* a chat job that was put behind another job (its sender got a position
\* notice) has been taken and is being handled
C11_Witness ==
    \E w \in Workers :
        /\ worker[w].job.type = "chat"
        /\ ~worker[w].job.placeholder
        /\ worker[w].pc = "call"
        /\ Taken(worker[w].job.id)

\* the numbers of the jobs in a sequence of jobs
Ids(q) == [i \in 1..Len(q) |-> q[i].id]

\* no element occurs twice
NoDuplicates(seq) ==
    \A i \in 1..Len(seq), j \in 1..Len(seq) : seq[i] = seq[j] => i = j

\* C12: no job is taken twice, the queue never holds a job twice nor a job
\* that was taken before, and the dispatcher puts no job for a job it handles
\* except the one consolidation job of a chat job: a job whose handler raised
\* or whose backend call faulted is not put back or tried again.
C12_NoJobTwice ==
    [][/\ NoDuplicates(started')
       /\ NoDuplicates(Ids(queue'))
       /\ \A i \in 1..Len(queue') : ~\E k \in 1..Len(started') : started'[k] = queue'[i].id
       /\ \A w \in Workers :
             (Busy(w) /\ worker'[w] # worker[w] /\ phase' = "running")
             => \/ queue' = queue
                \/ /\ worker[w].job.type = "chat"
                   /\ Len(queue') = Len(queue) + 1
                   /\ SubSeq(queue', 1, Len(queue)) = queue
                   /\ queue'[Len(queue')].type = "consolidate_memory"
                   /\ queue'[Len(queue')].id > worker[w].job.id
                   /\ worker'[w].pc = "idle" /\ ~worker'[w].caught
      ]_vars

\* the dispatcher has gone on to the next job after a chat job whose backend
\* call faulted, and nothing is waiting in the queue
C12_Witness ==
    /\ Len(started) = 2
    /\ queue = <<>>
    /\ \E w \in Workers : /\ worker[w].caught
                          /\ worker[w].job.id = 2
                          /\ worker[w].pc = "edit"
                          /\ worker[w].outcome \in {"timeout", "other"}

\* the texts _get_ai_response may hand back for a request that ended this way
ReturnedTexts(type, outcome) ==
    CASE outcome = "not_init"   -> { NotInitMsg }
      [] outcome = "timeout"    -> { TimeoutMsg }
      [] outcome = "connection" -> { ConnectionMsg }
      [] outcome = "other"      -> { CriticalMsg }
      [] outcome = "ok"         -> { Strip(raw) : raw \in RawCompletions(type) }
      [] OTHER                  -> {}

\* C13: however the request to the backend ends, _get_ai_response returns to
\* the handler that called it and the dispatcher's `except` is not entered:
\* the handler goes on with the fixed text of the fault (missing client,
\* timeout, connection error, anything else) or with the completion text.
C13_ClientNeverRaises ==
    [][\A w \in Workers :
          LET a == worker[w]
              b == worker'[w]
              asked == \/ a.pc = "call"
                       \/ (~clientInit /\ a.pc = "typing" /\ b.outcome = "not_init")
                       \/ (~clientInit /\ a.pc = "idle" /\ b.outcome = "not_init")
          IN  /\ (a.pc = "call" /\ b # a /\ phase' = "running")
                    => ~(b.pc = "idle" /\ b.caught)
              /\ (asked /\ b # a /\ b.pc \notin {"idle", "stopped"})
                    => /\ b.outcome \in CallOutcomes \cup {"not_init"}
                       /\ b.resp \in ReturnedTexts(b.job.type, b.outcome)
                       /\ b.outcome # "ok" => Truthy(b.resp)
      ]_vars

\* the scene handler goes on with the text of a connection error
C13_Witness ==
    \E w \in Workers :
        /\ worker[w].job.type = "generate_scene"
        /\ worker[w].outcome = "connection"
        /\ worker[w].resp = ConnectionMsg
        /\ worker[w].pc = "reply"

\* this step puts a chat job at the tail of the queue
ChatJobPut ==
    /\ Len(queue') = Len(queue) + 1
    /\ queue'[Len(queue')].type = "chat"

\* C14: with the backend reported down chat_handler sends the offline notice,
\* creates no placeholder and returns without touching the queue; without a
\* display name it does the same with the "run /start" notice, before it even
\* probes the backend; a chat job is put only by a handler that found the name
\* set and the backend up.  (Outside a private chat the handler returns at once:
\* that step changes nothing at all.)
C14_OfflineEnqueuesNothing ==
    [][/\ \A c \in Chats, named \in BOOLEAN, up \in BOOLEAN :
             LET r == ChatHandlerChecks(c, named, up)
             IN  /\ (named /\ ~up) => (r.pc = "notifying" /\ r.notice = "offline")
                 /\ ~named => (r.pc = "notifying" /\ r.notice = "setup")
                 /\ r.pc = "notifying" => (~r.placeholder /\ r.pos = 0)
                 /\ r.pc = "replying" => (named /\ up)
       /\ (prod.pc = "idle" /\ prod' # prod)
             => (/\ prod' \in { ChatHandlerChecks(c, named, up) :
                                   c \in Chats, named \in BOOLEAN, up \in BOOLEAN }
                 /\ UNCHANGED << queue, unfinished, nextId, produced >>)
       /\ (prod.pc = "notifying" /\ prod' # prod)
             => (/\ prod' = IdleProducer
                 /\ UNCHANGED << queue, unfinished, nextId, produced >>)
       /\ ChatJobPut => (prod.pc = "replying" /\ prod.notice \in {"none", "position"})
      ]_vars

\* the backend went down after a first job was put: the sender of the next
\* message is being told so
C14_Witness ==
    /\ prod.pc = "notifying"
    /\ prod.notice = "offline"
    /\ produced = 1

\* C15 (as claimed): the handler of every chat job the dispatcher took has, when
\* it ends, been through send_final_response with the text _get_ai_response
\* handed back.
C15_EveryChatJobDelivered ==
    [][\A w \in Workers :
          LET a == worker[w]
          IN  (a.job.type = "chat" /\ done' = done + 1 /\ worker'[w].pc = "idle")
              => (/\ a.pc \in {"edit", "post"}
                  /\ a.outcome \in CallOutcomes \cup {"not_init"}
                  /\ a.final = FinalText(a.resp))
      ]_vars

\* C16 (as claimed): send_final_response with a placeholder edits it, and the
\* edit either succeeds or leaves the content unchanged (nothing is posted, the
\* handler goes on) or fails otherwise (the text is posted as a new message);
\* without a placeholder the text is posted as a new message.
C16_EditElsePost ==
    [][\A w \in Workers :
          LET a == worker[w]
              b == worker'[w]
          IN  /\ (a.job.type = "chat" /\ a.final = <<>> /\ b.final # <<>>)
                    => b.pc = (IF a.job.placeholder THEN "edit" ELSE "post")
              /\ (a.pc = "edit" /\ b # a /\ phase' = "running")
                    => \/ b.pc = "post" /\ b.final = a.final
                       \/ b.pc = "idle" /\ ~b.caught
      ]_vars

RECURSIVE Concat(_)
Concat(seqs) == IF seqs = <<>> THEN <<>> ELSE Head(seqs) \o Concat(Tail(seqs))

\* a divided by b, rounded up
CeilDiv(a, b) == (a + b - 1) \div b

\* C17: a text longer than the message length is posted in ceil(len / length)
\* parts, none longer than the length, which put together in the order they
\* are posted give the text again; the parts are posted one after the other in
\* that order, all of them unless a post fails; 10,000 characters against 4096
\* make 3 parts.
C17_LongTextSplit ==
    (delivery.pc \in {"posting", "failed", "done"} /\ Len(delivery.text) > delivery.limit)
    => /\ Len(delivery.parts) = CeilDiv(Len(delivery.text), delivery.limit)
       /\ \A k \in 1..Len(delivery.parts) : /\ Len(delivery.parts[k]) <= delivery.limit
                                             /\ Len(delivery.parts[k]) >= 1
       /\ Concat(delivery.parts) = delivery.text
       /\ delivery.sent = SubSeq(delivery.parts, 1, Len(delivery.sent))
       /\ delivery.pc = "done" => delivery.sent = delivery.parts
       /\ (Len(delivery.text) = 10000 /\ delivery.limit = 4096) => Len(delivery.parts) = 3

\* the 10,000 characters have been posted in three messages
C17_Witness ==
    /\ delivery.pc = "done"
    /\ Len(delivery.text) = 10000
    /\ delivery.limit = TELEGRAM_MAX_MESSAGE_LENGTH
    /\ Len(delivery.sent) = 3
    /\ Len(delivery.sent[3]) = 10000 - 2 * 4096

\* C18: whenever send_final_response is about to edit the placeholder or to
\* post, its payload is not empty: it is the backend's text, or the fixed
\* empty-response notice when that text is empty.
C18_NeverEmptyPayload ==
    \A w \in Workers :
        worker[w].pc \in {"edit", "post"}
        => /\ worker[w].final # <<>>
           /\ worker[w].final = IF worker[w].resp = <<>> THEN EmptyNotice
                                 ELSE worker[w].resp

\* the backend answered with blanks only and the notice is about to be edited in
C18_Witness ==
    \E w \in Workers :
        /\ worker[w].pc = "edit"
        /\ worker[w].outcome = "ok"
        /\ worker[w].resp = <<>>
        /\ worker[w].final = EmptyNotice

\* the new user message of a chat prompt carries the framing prefix
Framed(rec) ==
    rec.prompt[Len(rec.prompt)] =
        Message("user", SystemPrompt \o << "\n\n" >> \o rec.job.text)

\* C19: the chat handler puts the framing prefix into the new user message
\* exactly when the conversation had no persisted message as the job was
\* handled, whatever the memory setting and the stored summary are.
C19_FramedIffHistoryEmpty ==
    \A w \in Workers :
        (worker[w].pc = "call" /\ worker[w].job.type = "chat")
        => (Framed(worker[w]) <=> worker[w].total = 0)

\* the n most recent elements of h, oldest first
MostRecent(h, n) ==
    LET k == Min(n, Len(h)) IN [i \in 1..k |-> h[Len(h) - k + i]]

\* C20: the list a chat job sends to the backend is one summary message if
\* and only if memory is enabled for the chat and a summary is stored, then
\* the at most MAX_HISTORY_MESSAGES most recent persisted messages in
\* insertion order, then the new user message as the last element.
C20_PromptLayout ==
    [][\A w \in Workers :
          (worker[w].pc = "typing" /\ worker[w].job.type = "chat" /\ worker'[w].pc = "call")
          => LET c      == worker[w].job.chat
                 p      == worker'[w].prompt
                 lead   == IF memory[c] /\ summary[c].present
                           THEN << Message("system",
                                           << "(Memory: " >> \o summary[c].text \o << ")" >>) >>
                           ELSE <<>>
                 recent == MostRecent(hist[c], MAX_HISTORY_MESSAGES)
                 last   == p[Len(p)]
             IN  /\ Len(p) = Len(lead) + Len(recent) + 1
                 /\ SubSeq(p, 1, Len(p) - 1) = lead \o recent
                 /\ last.role = "user"
                 /\ last.content \in { worker[w].job.text,
                                        SystemPrompt \o << "\n\n" >> \o worker[w].job.text }
      ]_vars

\* a chat job is at the backend with the summary, the newest
\* MAX_HISTORY_MESSAGES of 28 stored messages and the new message
C20_Witness ==
    \E w \in Workers :
        /\ worker[w].pc = "call"
        /\ worker[w].job.type = "chat"
        /\ worker[w].total > MAX_HISTORY_MESSAGES
        /\ Len(worker[w].prompt) = MAX_HISTORY_MESSAGES + 2
        /\ worker[w].prompt[1].role = "system"
        /\ worker[w].prompt[Len(worker[w].prompt)] = Message("user", worker[w].job.text)

\* C21: a consolidation job that finds no persisted message for its chat
\* returns at once: no request goes to the backend, no summary is written and
\* the "memory formed" notice is not sent; one that finds messages sends all
\* of them, oldest first, followed by the summarisation instruction.
C21_ConsolidationNeedsHistory ==
    [][\A w \in Workers :
          LET a == worker[w]
              b == worker'[w]
              c == a.job.chat
          IN  (a.pc = "typing" /\ a.job.type = "consolidate_memory" /\ b # a
                  /\ phase' = "running")
              => /\ hist[c] = <<>>
                    => /\ b.pc = "idle"
                       /\ UNCHANGED << inflight, summary, sums, hist >>
                 /\ (hist[c] # <<>> /\ b.pc = "idle") => b.caught
                 /\ b.pc # "idle"
                    => /\ b.pc \in {"call", "notify"}
                       /\ b.pc = "call" <=> clientInit
                       /\ b.prompt = hist[c] \o << Message("user", SummariseInstruction) >>
      ]_vars

\* all 30 persisted messages and the instruction are at the backend
C21_Witness ==
    \E w \in Workers :
        /\ worker[w].pc = "call"
        /\ worker[w].job.type = "consolidate_memory"
        /\ Len(hist[worker[w].job.chat]) > MAX_HISTORY_MESSAGES
        /\ worker[w].prompt =
              hist[worker[w].job.chat] \o << Message("user", SummariseInstruction) >>

\* q2 is q1 with one job more at its tail
OnePut(q1, q2) == Len(q2) = Len(q1) + 1 /\ SubSeq(q2, 1, Len(q1)) = q1

\* nothing is pending and the dispatcher waits in REQUEST_QUEUE.get()
Quiescent == queue = <<>> /\ \A w \in Workers : worker[w].pc = "idle"

\* what a step may do to the queue while the bot is running
HandlersPutLittle ==
    phase' = "running" =>
       /\ \/ queue' = queue
          \/ (queue # <<>> /\ queue' = Tail(queue))
          \/ OnePut(queue, queue')
       /\ \A w \in Workers :
             LET a == worker[w]
                 b == worker'[w]
             IN  /\ (a.job.type \in {"generate_scene", "generate_persona",
                                      "consolidate_memory"} /\ b # a)
                    => queue' = queue
                 /\ (a.job.type = "chat" /\ b # a /\ queue' # queue)
                    => /\ OnePut(queue, queue')
                       /\ queue'[Len(queue')].type = "consolidate_memory"
                       /\ queue'[Len(queue')].id # a.job.id
                       /\ b.pc = "idle"

\* C22: a step adds at most one job to the queue; a job added while a handler
\* runs is a consolidation job added by a chat handler as it returns (so at
\* most one per chat job), never by a scene, persona or consolidation handler;
\* and since the producers put finitely many jobs, the dispatcher, as long as
\* it is not shut down, ends up waiting on an empty queue for good.
C22_Quiesces ==
    /\ [][HandlersPutLittle]_vars
    /\ <>[](Quiescent \/ phase = "shutdown")

\* both producers' jobs and the consolidation job of the first are done and
\* the dispatcher waits on the empty queue
C22_Witness ==
    /\ Quiescent
    /\ phase = "running"
    /\ produced = MaxEnqueues
    /\ done = produced + 1
    /\ Len(started) = done

\* the name and the prompt segment of a completion that has the delimiter
NameSegment(t) == Strip(Remove(SplitFirst(t, "###"), "NAME:"))
PromptSegment(t) == Strip(Remove(SplitSecond(t, "###"), "PROMPT:"))

\* the completion has the delimiter and neither segment is empty
WellFormedPersona(t) ==
    /\ Contains(t, "###")
    /\ NameSegment(t) # <<>>
    /\ PromptSegment(t) # <<>>

C24_SceneStoredOnSuccessOnly ==
    [][\A w \in Workers :
          LET a == worker[w]
              b == worker'[w]
              c == b.job.chat
          IN  (b.job.type = "generate_scene" /\ a.outcome = "none" /\ a.pc = "call"
                  /\ b.outcome # "none" /\ phase' = "running")
              => /\ b.outcome \in BackendFaults => chatData' = chatData
                 /\ chatData'[c].scene # chatData[c].scene
                    => (b.outcome = "ok" /\ chatData'[c].scene = b.resp)
      ]_vars

\* C25: chat_handler creates the placeholder exactly when it finds the queue
\* empty and sends the position notice exactly when it does not; the chat job
\* it puts carries the placeholder if and only if no position notice was
\* sent; and when the backend call of a job with a placeholder succeeds, the
\* reply goes out as an edit of that placeholder.
C25_PlaceholderOrPosition ==
    [][/\ (prod.pc = "idle" /\ prod'.pc = "replying")
             => /\ prod'.placeholder <=> queue = <<>>
                /\ prod'.notice = (IF queue = <<>> THEN "none" ELSE "position")
       /\ ChatJobPut
             => /\ prod.pc = "replying"
                /\ queue'[Len(queue')].placeholder = prod.placeholder
                /\ prod.placeholder <=> prod.notice = "none"
                /\ ~prod.placeholder <=> prod.notice = "position"
       /\ \A w \in Workers :
             LET a == worker[w]
                 b == worker'[w]
             IN  (a.job.type = "chat" /\ a.job.placeholder /\ a.pc = "call"
                     /\ b.outcome = "ok" /\ phase' = "running")
                 => (b.pc = "edit" /\ b.final = FinalText(b.resp))
      ]_vars

\* the reply to the job put on the empty queue is being edited into its
\* placeholder while the job put behind it, after a position notice, waits
C25_Witness ==
    \E w \in Workers :
        /\ worker[w].pc = "edit"
        /\ worker[w].job.placeholder
        /\ worker[w].outcome = "ok"
        /\ queue # <<>>
        /\ queue[1].type = "chat"
        /\ ~queue[1].placeholder

\* C26 (as claimed): the number in the position notice of a chat job is the
\* place the job takes in the queue when it is put: the jobs pending ahead of
\* it plus one.
C26_PositionIsPlaceTaken ==
    [][(ChatJobPut /\ prod.notice = "position") => prod.pos = Len(queue')]_vars

\* this step is a user command that deletes data, changes the memory setting
\* or regenerates: the dispatcher stands still while stored data change
CommandStep ==
    /\ worker' = worker
    /\ \/ hist' # hist
       \/ summary' # summary
       \/ memory' # memory
       \/ chatData' # chatData
       \/ regenerated' # regenerated

\* C27: while the bot is running the queue changes only by a put at its tail
\* or by the dispatcher taking its head; /start, /clear, the delete choices,
\* /regenerate (up to the put of its own job) and the memory toggle leave the
\* pending jobs as they are.
C27_NoCancellation ==
    [][phase' = "running" =>
          /\ \/ queue' = queue
             \/ OnePut(queue, queue')
             \/ /\ queue # <<>>
                /\ queue' = Tail(queue)
                /\ \E w \in Workers : worker[w].pc = "idle" /\ worker'[w].job = Head(queue)
          /\ CommandStep => UNCHANGED << queue, unfinished >>
      ]_vars

\* the consolidation job of a chat is still pending after the history of the
\* chat was cleared
C27_Witness ==
    /\ queue # <<>>
    /\ queue[1].type = "consolidate_memory"
    /\ hist[queue[1].chat] = <<>>
    /\ phase = "running"

\* C28 (as claimed): a send, edit or typing indicator that Telegram rejects
\* never ends a handler by an exception in ai_worker's loop: every handler
\* that ends has returned; and after the one post that follows a failed edit
\* send_final_response sends nothing more.
C28_DeliveryFaultsContained ==
    [][\A w \in Workers :
          LET a == worker[w]
              b == worker'[w]
          IN  /\ (a.pc \in {"typing", "edit", "post", "reply", "reply_err", "notify"}
                     /\ done' = done + 1 /\ phase' = "running")
                 => ~b.caught
              /\ (a.pc = "post" /\ b # a /\ phase' = "running") => b.pc = "idle"
      ]_vars

\* the persisted messages in a chat prompt: what lies between the summary
\* message, if there is one, and the new user message
HistoryPart(p) ==
    SubSeq(p, IF Len(p) > 1 /\ p[1].role = "system" THEN 2 ELSE 1, Len(p) - 1)

\* what a chat handler has done as send_chat_action came back without raising:
\* it went on to the backend, or without a client to the delivery of the
\* fixed text, with the newest messages or, the read having failed, with none
ChatHandlerWentOn(w) ==
    LET a == worker[w]
        b == worker'[w]
        c == a.job.chat
    IN  /\ b.pc \in {"call", "edit", "post"}
        /\ b.pc = "call" <=> clientInit
        /\ HistoryPart(b.prompt) \in {MostRecent(hist[c], MAX_HISTORY_MESSAGES), <<>>}
        /\ b.total \in {Len(hist[c]), 0}
        /\ b.prompt[Len(b.prompt)].role = "user"

\* a chat handler is past send_chat_action in this step
ChatHandlerRead(w) ==
    /\ worker[w].pc = "typing"
    /\ worker[w].job.type = "chat"
    /\ worker'[w] # worker[w]
    /\ phase' = "running"
    /\ ~(worker'[w].pc = "idle" /\ worker'[w].caught)

\* a chat handler ends in this step with one of its two inserts lost
OneInsertLost(w) ==
    /\ worker[w].pc \in {"edit", "post"}
    /\ Len(hist'[worker[w].job.chat]) = Len(hist[worker[w].job.chat]) + 1

\* C29 (as claimed): a chat handler whose read of the history failed goes on
\* with no history and a total of 0, asks the backend and delivers; a handler
\* whose insert failed still returns.
C29_ReadFailureMeansZero ==
    [][\A w \in Workers :
          /\ ChatHandlerRead(w)
                => /\ ChatHandlerWentOn(w)
                   /\ (HistoryPart(worker'[w].prompt) = <<>> /\ hist[worker[w].job.chat] # <<>>)
                         => worker'[w].total = 0
          /\ OneInsertLost(w)
                => (worker'[w].pc = "idle" /\ ~worker'[w].caught /\ done' = done + 1)
      ]_vars

\* C29, the part that holds: no failed read or insert ends the handler; after
\* a failed read it goes on with no history, and with a total that is 0 or,
\* when the count was read before the failure, the number of stored messages.
C29_ReadFailureGoesOn ==
    [][\A w \in Workers :
          /\ ChatHandlerRead(w)
                => /\ ChatHandlerWentOn(w)
                   /\ HistoryPart(worker'[w].prompt) # <<>>
                         => worker'[w].total = Len(hist[worker[w].job.chat])
          /\ OneInsertLost(w)
                => (worker'[w].pc = "idle" /\ ~worker'[w].caught /\ done' = done + 1)
      ]_vars

\* the read failed after the count: the backend is asked with the new message
\* alone and the handler holds the real total
C29_Witness ==
    \E w \in Workers :
        /\ worker[w].pc = "call"
        /\ worker[w].job.type = "chat"
        /\ dbFaulty = "all"
        /\ hist[worker[w].job.chat] # <<>>
        /\ HistoryPart(worker[w].prompt) = <<>>
        /\ worker[w].total = Len(hist[worker[w].job.chat])

\* C30 (as claimed): /regenerate removes the last user and assistant message
\* only on its way to putting a chat job with the text of that user message:
\* a step that deletes the pair leaves chat_handler about to put that job, and
\* chat_handler then puts it.
C30_RegenerateAllOrNothing ==
    [][/\ regenerated' = regenerated + 1
             => \E c \in Chats :
                   /\ Len(hist[c]) >= 2
                   /\ hist' = [hist EXCEPT ![c] = SubSeq(@, 1, Len(@) - 2)]
                   /\ prod'.pc = "replying"
                   /\ prod'.chat = c
                   /\ prod'.text = hist[c][Len(hist[c]) - 1].content
       /\ (prod.pc = "replying" /\ prod.text # UserText /\ prod' # prod)
             => (ChatJobPut /\ queue'[Len(queue')].text = prod.text)
      ]_vars

\* C31 (as claimed): a job that was pending or in flight when /start, /clear
\* or a delete emptied its conversation writes nothing into that conversation
\* afterwards: no step of the dispatcher on such a job changes the persisted
\* history or the summary of the job's chat.
C31_ClearedStaysClear ==
    [][\A w \in Workers :
          (worker[w].job.id \in stale /\ worker'[w] # worker[w])
             => /\ hist'[worker[w].job.chat] = hist[worker[w].job.chat]
                /\ summary'[worker[w].job.chat] = summary[worker[w].job.chat]
      ]_vars

\* a history of user and assistant messages taking turns, the user first and
\* the assistant last
WellPaired(h) ==
    /\ Len(h) % 2 = 0
    /\ \A i \in 1..Len(h) : h[i].role = IF i % 2 = 1 THEN "user" ELSE "assistant"

\* C32: when no write to the database fails, whatever chat jobs, /regenerate,
\* /start, /clear and deletions took place, the persisted history of every
\* conversation has even length and alternates user, assistant, ..., ending
\* with an assistant message when it is not empty.
C32_HistoryAlternates == \A c \in Chats : WellPaired(hist[c])

\* a /regenerate deleted a turn of chat 1 and a chat job persisted one
C32_Witness == regenerated = 1 /\ Len(hist[1]) = 28

\* the persisted history and the summary of every chat but a stay as they are
OthersUntouched(a) ==
    \A b \in Chats \ {a} : hist'[b] = hist[b] /\ summary'[b] = summary[b]

\* C33: a step of the dispatcher on a job of one conversation, and /start,
\* /clear, /regenerate or a delete issued in one conversation, change neither
\* the persisted history nor the summary of any other conversation.
C33_ConversationIsolation ==
    [][/\ \A w \in Workers :
             worker'[w] # worker[w] => OthersUntouched(worker[w].job.chat)
       /\ \A a \in Chats :
             (clear_history(a) \/ start_command(a) \/ delete_data_choice(a)
                \/ regenerate_command(a))
                => OthersUntouched(a)
      ]_vars

\* /regenerate has deleted a turn of chat 1 and is on its way to the queue
\* while chat 2 holds a turn of its own
C33_Witness ==
    /\ regenerated = 1
    /\ prod.chat = 1
    /\ prod.text = << "earlier" >>
    /\ hist[2] # <<>>

\* the content of the newest user message of a history, <<>> without one
RECURSIVE MostRecentUserText(_)
MostRecentUserText(h) ==
    IF h = <<>> THEN <<>>
    ELSE IF h[Len(h)].role = "user" THEN h[Len(h)].content
    ELSE MostRecentUserText(SubSeq(h, 1, Len(h) - 1))

C35_MemoryOffNoConsolidation ==
    [][/\ \A w \in Workers :
             LET a == worker[w]
                 b == worker'[w]
                 c == a.job.chat
             IN  /\ (a.pc = "typing" /\ a.job.type = "chat" /\ ~memory[c]
                        /\ b.pc \in {"call", "edit", "post"})
                    => /\ ~b.memEn
                       /\ \A i \in 1..Len(b.prompt) : b.prompt[i].role # "system"
                 /\ (a.job.type = "chat" /\ b # a /\ ConsolidationPut(c))
                    => a.memEn /\ a.total > 0
       /\ \A k \in 1..MaxInterval, m \in BOOLEAN : ~ShouldConsolidateAt(m, 0, k)
      ]_vars

\* with memory switched off the turn that took chat 1 to 30 stored messages
\* came and went without a consolidation job
C35_Witness ==
    /\ ~memory[1]
    /\ Len(hist[1]) = 30
    /\ Len(started) = 1
    /\ Quiescent

\* C36: once post_shutdown_callback has run the queue is empty and the
\* dispatcher task has ended; the jobs that were pending when it ran are
\* thrown away, and neither they nor any other job are handed to a handler
\* from then on.
C36_ShutdownDiscardsPending ==
    [][phase' = "shutdown"
          => /\ queue' = <<>>
             /\ \A w \in Workers : worker'[w].pc = "stopped"
             /\ started' = started
             /\ \A i \in 1..Len(queue) :
                   \A j \in 1..Len(started') : started'[j] # queue[i].id
      ]_vars

\* the bot was shut down with a job on the queue that no handler ever got
C36_Witness ==
    /\ phase = "shutdown"
    /\ Len(started) < nextId - 1

\* the settings in use of a chat
Settings(d) == << d.scenery, d.persona_name, d.persona_prompt >>

\* C37: a confirmation takes the generated scene or persona out of chat_data
\* as it applies it, and a confirmation that finds none (the one before took
\* it and nothing was generated since) changes no setting and reports the
\* error.
C37_AppliedAtMostOnce ==
    [][\A c \in Chats :
          /\ use_generated_scene_handler(c)
                => /\ chatData'[c].scene = <<>>
                   /\ chatData'[c].persona = chatData[c].persona
                   /\ IF Truthy(chatData[c].scene)
                      THEN /\ chatData'[c].scenery = chatData[c].scene
                           /\ prod'.notice = "scene_set"
                      ELSE /\ Settings(chatData'[c]) = Settings(chatData[c])
                           /\ prod'.notice = "scene_error"
          /\ use_generated_persona(c)
                => /\ ~chatData'[c].persona.set
                   /\ chatData'[c].scene = chatData[c].scene
                   /\ IF chatData[c].persona.set
                      THEN /\ chatData'[c].persona_name = chatData[c].persona.name
                           /\ chatData'[c].persona_prompt = chatData[c].persona.prompt
                           /\ prod'.notice = "persona_set"
                      ELSE /\ Settings(chatData'[c]) = Settings(chatData[c])
                           /\ prod'.notice = "persona_error"
      ]_vars

\* the scene button was pressed again after the scene had been applied: the
\* scenery is the applied one and the handler has the error to report
C37_Witness ==
    /\ prod.notice = "scene_error"
    /\ Truthy(chatData[prod.chat].scenery)
    /\ chatData[prod.chat].scene = <<>>

\* C38 (as claimed): every job the dispatcher took is marked done once,
\* whether its handler returned or raised: when the dispatcher waits for a job
\* and the queue is empty, REQUEST_QUEUE counts no unfinished task.
C38_AccountingBalanced == Quiescent => unfinished = 0

====
